---- MODULE Spec2Model ----
(***************************************************************************)
(* The authenticated request pipeline of FortumAPIClient                   *)
(* (custom_components/mittfortum/api/client.py): _get with its retry       *)
(* recursion, _ensure_valid_token, _handle_response and its per-status     *)
(* handlers, _handle_retry_logic, and the date-range ladder of             *)
(* get_time_series_data.                                                   *)
(*                                                                         *)
(* Strings the code compares or searches (exception messages, redirect     *)
(* locations, response texts) are sequences of words, so that Python's     *)
(* `==` is sequence equality and `in` is a contiguous-subsequence search.  *)
(* Delays are in milliseconds, dates in whole days.                        *)
(***************************************************************************)
EXTENDS Integers, Sequences, FiniteSets, TLC

VARIABLES
    pc,             \* position of the one running coroutine
    op,             \* "none", "get" (a caller of _get on the session URL), "ts"
    url,            \* URL of the current logical GET
    retry_count,    \* _get's retry_count of the innermost frame
    refresh_token,  \* auth_client.refresh_token: "session_based", "real", "none"
    expiry,         \* how the collaborator judges the credential: "valid", "lead", "expired"
    held,           \* transport clients currently inside their `async with`
    response,       \* the response client.get returned (NoResponse when none)
    pending,        \* the value or exception travelling up the _get frames
    result,         \* what the caller of the operation received
    tier,           \* get_time_series_data: 0 outside, 1..3 inside
    requested,      \* the caller's (from_date, to_date), 0 for None
    \* history
    gets,           \* physical GETs of the current logical GET
    delays,         \* delays slept in the current logical GET, with the mode
    resps,          \* the classes of the last two responses of the current logical GET
    all401,         \* every response of the current logical GET so far was a 401
    modes,          \* the values refresh_token took during the current logical GET
    events,         \* collaborator and pipeline events of the current attempt
    modeChanges,    \* times the collaborator changed refresh_token in this operation
    ticks,          \* times the credential aged in this operation
    requests,       \* time series: the (from, to) of each pipeline request issued
    failures,       \* time series: class and kind of the failure of each failed tier
    proactive,      \* the argument of the running _ensure_valid_token
    attached,       \* the cookies an attempt set on its client before it sends
    decoded,        \* time series: what _parse_trpc_response made of the last response
    sent,           \* the access token an attempt read and the Authorization it built
    pc2             \* position of a second, concurrent _get coroutine in its gate

vars == << pc, op, url, retry_count, refresh_token, expiry, held,
           response, pending, result, tier, requested, gets, delays, resps,
           all401, modes, events, modeChanges, ticks, requests, failures,
           proactive, attached, decoded, sent, pc2 >>

(***************************************************************************)
(* Bounds of the model                                                     *)
(***************************************************************************)
\* the collaborator changes the auth mode at most this often per operation
MaxModeChanges == 1
\* the credential ages at most this often per operation
MaxTicks == 1

(***************************************************************************)
(* Strings                                                                 *)
(***************************************************************************)
\* Python `needle in hay` on word sequences
Contains(hay, needle) ==
    \E i \in 0..(Len(hay) - Len(needle)) :
        \A j \in 1..Len(needle) : hay[i + j] = needle[j]

TOKEN_EXPIRED_RETRY_MSG == << "Token", "expired", "-", "retry", "required" >>

SESSION_BASED == "session_based"

(***************************************************************************)
(* Exceptions and return values                                            *)
(*                                                                         *)
(* type is the Python class; "Exception" stands for every class outside    *)
(* the APIError family.  kind is the error taxonomy tag of the place that  *)
(* raised it (a label, never read by the modelled code).                   *)
(***************************************************************************)
Raise(type, kind, msg) == [tag |-> "raise", type |-> type, kind |-> kind, msg |-> msg]

Return(what) == [tag |-> "return", type |-> what, kind |-> "ok", msg |-> << >>]

Nothing == [tag |-> "none", type |-> "none", kind |-> "none", msg |-> << >>]

\* exceptions.py: InvalidResponseError and UnexpectedStatusCodeError derive
\* from APIError, so `except APIError` catches all three
IsAPIError(e) ==
    e.tag = "raise" /\ e.type \in {"APIError", "InvalidResponseError", "UnexpectedStatusCodeError"}

(***************************************************************************)
(* Responses                                                               *)
(*                                                                         *)
(* status 0 is a transport failure of client.get (an exception, no         *)
(* response).  json names the shape response.json() yields:                *)
(*   "invalid"            the text is not JSON (json() raises ValueError)  *)
(*   "dict"               {"a": 1}                                         *)
(*   "number"             5                                                *)
(*   "list_empty"         []                                               *)
(*   "list_scalar"        [1]                                              *)
(*   "list_plain"         [{"a": 1}]                                       *)
(*   "list_result"        [{"result": {"data": {"json": <series>}}}]       *)
(*   "list_result_nojson" [{"result": {"data": {}}}]                       *)
(*   "list_error_ise"     [{"error": {"json": {"message":                  *)
(*                                        "INTERNAL_SERVER_ERROR"}}}]      *)
(*   "list_error_msg"     [{"error": {"json": {"message": "Bad input"}}}]  *)
(*   "list_error_nomsg"   [{"error": {"json": {}}}]                        *)
(*   "list_error_nojson"  [{"error": {}}]                                  *)
(*   "list_error_str"     [{"error": {"json": "oops"}}]                    *)
(***************************************************************************)
Resp(status, location, text, json) ==
    [status |-> status, location |-> location, text |-> text, json |-> json]

NoResponse == Resp(-1, << >>, << >>, "invalid")

BodyText == << "body" >>

Responses200 ==
    { Resp(200, << >>, BodyText, j) :
        j \in { "list_result", "dict", "invalid", "list_empty", "list_plain",
                "list_scalar", "list_result_nojson", "number" } }
        \cup { Resp(200, << >>, << >>, "invalid") }

Responses307 ==
    { Resp(307, l, << >>, "invalid") :
        l \in { << "sign-out", "?", "TokenExpired" >>, << "sign-out" >>,
                << "login" >>, << "Server", "error" >> } }

Responses500 ==
    { Resp(500, << >>, BodyText, j) :
        j \in { "list_error_ise", "list_error_msg", "list_error_nomsg",
                "list_error_nojson", "list_error_str", "list_scalar",
                "list_plain", "invalid" } }

ResponsesOther ==
    { Resp(401, << >>, BodyText, "invalid"),
      Resp(403, << >>, BodyText, "invalid"),
      Resp(404, << >>, << "Not", "Found" >>, "invalid"),
      Resp(503, << >>, << "Server", "error" >>, "invalid"),
      Resp(0, << >>, << >>, "invalid") }

Responses == Responses200 \cup Responses307 \cup Responses500 \cup ResponsesOther

\* str(status_code)
StatusStr(n) ==
    CASE n = 404 -> "404" [] n = 503 -> "503" [] n = 200 -> "200"
      [] n = 307 -> "307" [] n = 401 -> "401" [] n = 403 -> "403"
      [] n = 500 -> "500" [] OTHER -> "0"

(***************************************************************************)
(* Response handlers                                                       *)
(***************************************************************************)
_handle_redirect_response(r) ==
    IF Contains(r.location, << "sign-out" >>) /\ Contains(r.location, << "TokenExpired" >>)
    THEN Raise("APIError", "transient-auth-expired", TOKEN_EXPIRED_RETRY_MSG)
    ELSE Raise("APIError", "unexpected-redirect",
               << "Unexpected", "redirect", "to", ":" >> \o r.location)

\* mutant: a failed refresh raises the retry signal too
_handle_unauthorized_response_AlwaysSignal(outcome) ==
    Raise("APIError", "transient-auth-expired", TOKEN_EXPIRED_RETRY_MSG)

\* outcome: how auth_client.refresh_access_token() ended
_handle_unauthorized_response(outcome) ==
    IF outcome = "ok"
    THEN Raise("APIError", "transient-auth-expired", TOKEN_EXPIRED_RETRY_MSG)
    ELSE Raise("APIError", "fatal-auth",
               << "Authentication", "failed", "-", "re-authentication", "required" >>)

\* json_error.get("message", "Unknown error")
EnvelopeMessage(json) ==
    CASE json = "list_error_ise" -> << "INTERNAL_SERVER_ERROR" >>
      [] json = "list_error_msg" -> << "Bad", "input" >>
      [] OTHER -> << "Unknown", "error" >>

_handle_server_error_response(r) ==
    LET generic == Raise("APIError", "transient-server",
                         << "Server", "internal", "error", "-", "try", "again", "later" >>)
        isList == r.json \in { "list_empty", "list_scalar", "list_plain", "list_result",
                               "list_result_nojson",
                               "list_error_ise", "list_error_msg", "list_error_nomsg",
                               "list_error_nojson", "list_error_str" }
    IN  CASE r.json = "invalid" -> generic                 \* ValueError: pass
          [] ~isList \/ r.json = "list_empty" -> generic
          [] r.json = "list_scalar" ->                     \* "error" in 1
                Raise("Exception", "type-error", << "TypeError" >>)
          [] r.json \in {"list_plain", "list_result", "list_result_nojson"} -> generic
          [] r.json = "list_error_nojson" -> generic
          [] r.json = "list_error_str" ->                  \* "oops".get
                Raise("Exception", "type-error", << "AttributeError" >>)
          [] OTHER ->
                IF EnvelopeMessage(r.json) = << "INTERNAL_SERVER_ERROR" >>
                THEN Raise("APIError", "transient-server",
                           << "Server", "error", "-", "try", "reducing", "date", "range",
                              "or", "changing", "resolution" >>)
                ELSE Raise("APIError", "transient-server",
                           << "Server", "error", ":" >> \o EnvelopeMessage(r.json))

\* mutant: the empty-text check of lines 491-492 is missing
_handle_response_NoEmptyCheck(r, refresh) ==
    CASE r.status = 307 -> _handle_redirect_response(r)
      [] r.status = 401 -> _handle_unauthorized_response(refresh)
      [] r.status = 403 ->
            Raise("APIError", "fatal-auth",
                  << "Access", "forbidden", "-", "authentication", "may", "be", "required" >>)
      [] r.status = 500 -> _handle_server_error_response(r)
      [] r.status # 200 ->
            Raise("UnexpectedStatusCodeError", "unexpected-status",
                  << "Unexpected", "status", "code", StatusStr(r.status), ":" >> \o r.text)
      [] OTHER -> Return("response")

\* the part of _handle_response after the 401 branch's await; refresh is the
\* outcome of that await ("ok" when the status is not 401)
_handle_response(r, refresh) ==
    CASE r.status = 307 -> _handle_redirect_response(r)
      [] r.status = 401 -> _handle_unauthorized_response(refresh)
      [] r.status = 403 ->
            Raise("APIError", "fatal-auth",
                  << "Access", "forbidden", "-", "authentication", "may", "be", "required" >>)
      [] r.status = 500 -> _handle_server_error_response(r)
      [] r.status # 200 ->
            Raise("UnexpectedStatusCodeError", "unexpected-status",
                  << "Unexpected", "status", "code", StatusStr(r.status), ":" >> \o r.text)
      [] OTHER ->
            IF r.text = << >>
            THEN Raise("InvalidResponseError", "malformed-response",
                       << "Empty", "response", "from", "API" >>)
            ELSE Return("response")

(***************************************************************************)
(* Retry policy                                                            *)
(***************************************************************************)
MAX_ATTEMPTS_SESSION == 5
MAX_ATTEMPTS_TOKEN == 2
MAX_TOKEN_RETRIES_SESSION == 4
MAX_TOKEN_RETRIES_TOKEN == 1
SESSION_DELAY_MS == 5000
TOKEN_DELAY_MS == 100

\* _get: max_retries = 5 if is_session_based else 2
MaxRetries(rt) == IF rt = SESSION_BASED THEN MAX_ATTEMPTS_SESSION ELSE MAX_ATTEMPTS_TOKEN

\* str(max_retries)
MaxRetriesStr(rt) == IF rt = SESSION_BASED THEN "5" ELSE "2"

\* mutant: one retry too few in session mode, one too many in token mode
MaxRetriesForTokenError_Shifted(rt) ==
    IF rt = SESSION_BASED THEN MAX_TOKEN_RETRIES_SESSION - 1 ELSE MAX_TOKEN_RETRIES_TOKEN + 1

\* _handle_retry_logic: max_retries_for_token_error = 4 if is_session_based else 1
MaxRetriesForTokenError(rt) ==
    IF rt = SESSION_BASED THEN MAX_TOKEN_RETRIES_SESSION ELSE MAX_TOKEN_RETRIES_TOKEN

\* mutant: the session delay grows from 0, the token delay is linear from 0.2 s
RetryDelay_Wrong(rt, rc) ==
    IF rt = SESSION_BASED THEN rc * SESSION_DELAY_MS
    ELSE TOKEN_DELAY_MS * 2 * (rc + 1)

\* _handle_retry_logic: 5.0 + retry_count * 5.0, or 0.1 * 2 ** retry_count
RetryDelay(rt, rc) ==
    IF rt = SESSION_BASED THEN SESSION_DELAY_MS + rc * SESSION_DELAY_MS
    ELSE TOKEN_DELAY_MS * (2 ^ rc)

\* mutant: every API error is retried while below the ceiling
_handle_retry_logic_AnyError(exc, rt, rc) == rc < MaxRetriesForTokenError(rt)

\* mutant: the retry signal is retried whatever the attempt counter
_handle_retry_logic_NoCeiling(exc, rt, rc) == exc.msg = TOKEN_EXPIRED_RETRY_MSG

\* _handle_retry_logic: TRUE when the request is retried, FALSE when exc is re-raised
_handle_retry_logic(exc, rt, rc) ==
    exc.msg = TOKEN_EXPIRED_RETRY_MSG /\ rc < MaxRetriesForTokenError(rt)

\* what the try block of _get makes of the outcome of client.get and
\* _handle_response: a value to return, an exception to raise, or a retry
\* (tag "retry") decided by _handle_retry_logic
_get_outcome(o, rt, rc) ==
    CASE o.tag = "return" -> o
      [] IsAPIError(o) ->
            IF _handle_retry_logic(o, rt, rc)
            THEN [tag |-> "retry", type |-> o.type, kind |-> o.kind, msg |-> o.msg]
            ELSE o
      [] OTHER -> Raise("APIError", "request-failed", << "GET", "request", "failed" >>)

\* the last two entries of a sequence
LastTwo(q) == IF Len(q) > 2 THEN SubSeq(q, Len(q) - 1, Len(q)) ELSE q

\* the class of a response, for the history
RespClass(r) ==
    CASE r.status = 0 -> "transport"
      [] r.status = 200 -> IF r.text = << >> THEN "200empty" ELSE "200"
      [] r.status = 307 ->
            IF _handle_redirect_response(r).kind = "transient-auth-expired"
            THEN "307expired" ELSE "307other"
      [] r.status = 401 -> "401"
      [] r.status = 403 -> "403"
      [] r.status = 500 -> "500"
      [] OTHER -> "other"

(***************************************************************************)
(* URLs and date ranges (days relative to today)                           *)
(***************************************************************************)
DEFAULT_DAYS == 90
FALLBACK_DAYS == 30
FINAL_DAYS == 7

Url(kind, from, to) == [kind |-> kind, from |-> from, to |-> to]

SessionUrl == Url("session", 0, 0)

\* a URL that contains neither "/api/auth/session" nor "/api/trpc/"
OtherUrl == Url("other", 0, 0)

NoUrl == Url("none", 0, 0)

\* the `for {url}` of the maximum-retries message
UrlStr(u) == u.kind

\* what callers pass as (from_date, to_date); has* FALSE is None
RequestedRanges ==
    { [hasFrom |-> FALSE, from |-> 0, hasTo |-> FALSE, to |-> 0],
      [hasFrom |-> TRUE, from |-> -3, hasTo |-> TRUE, to |-> -1] }

NoRange == [hasFrom |-> FALSE, from |-> 0, hasTo |-> FALSE, to |-> 0]

\* mutant: the last tier asks for the last 30 days again
TierRange_NoSevenDays(t, req, dom) ==
    CASE t = 1 -> [from |-> IF req.hasFrom THEN req.from ELSE 0 - (dom - 1) - DEFAULT_DAYS,
                   to |-> IF req.hasTo THEN req.to ELSE 0]
      [] OTHER -> [from |-> 0 - FALLBACK_DAYS, to |-> 0]

\* get_time_series_data: the range of a tier; dom is today's day of the month
TierRange(t, req, dom) ==
    CASE t = 1 -> [from |-> IF req.hasFrom THEN req.from ELSE 0 - (dom - 1) - DEFAULT_DAYS,
                   to |-> IF req.hasTo THEN req.to ELSE 0]
      [] t = 2 -> [from |-> 0 - FALLBACK_DAYS, to |-> 0]
      [] OTHER -> [from |-> 0 - FINAL_DAYS, to |-> 0]

\* get_time_series_data: the tier-1 handler enters the ladder on these messages
LadderTrigger(exc) ==
    \/ Contains(exc.msg, << "Server", "error" >>)
    \/ Contains(exc.msg, << "reducing", "date", "range" >>)

(***************************************************************************)
(* Decoding of a time-series response                                      *)
(***************************************************************************)
\* _parse_trpc_response: the payload, or the exception of the first failing step
_parse_trpc_response(json) ==
    CASE json = "invalid" ->                               \* ValueError, wrapped
            Raise("InvalidResponseError", "malformed-response",
                  << "Failed", "to", "parse", "tRPC", "response" >>)
      [] json = "list_scalar" ->                           \* "result" in 1
            Raise("Exception", "type-error", << "TypeError" >>)
      [] json = "number" ->                                \* 5[0]
            Raise("Exception", "type-error", << "TypeError" >>)
      [] json = "list_result" -> Return("series")
      [] json = "list_result_nojson" ->                    \* KeyError, wrapped
            Raise("InvalidResponseError", "malformed-response",
                  << "Failed", "to", "parse", "tRPC", "response" >>)
      [] json = "dict" -> Return("object")
      [] json = "list_empty" -> Return("empty_object")
      [] OTHER -> Return("item")                           \* json_data[0]

\* models.py, TimeSeries.from_api_response: a series payload maps, anything
\* else lacks the keys of a series
from_api_response(payload) ==
    IF payload \in {"series", "object"} THEN Return("time_series")
    ELSE Raise("Exception", "key-error", << "KeyError" >>)

\* mutant: the handler of line 174 does not list TypeError
CaughtByFetch_NoTypeError(e) ==
    e.tag = "raise" /\ ~IsAPIError(e) /\ e.msg \in { << "ValueError" >>, << "KeyError" >> }

\* line 174: `except (ValueError, KeyError, TypeError)`; the message of an
\* exception outside the APIError family names its class
CaughtByFetch(e) ==
    /\ e.tag = "raise"
    /\ ~IsAPIError(e)
    /\ e.msg \in { << "ValueError" >>, << "KeyError" >>, << "TypeError" >> }

\* _fetch_time_series_data after _get returned the response r
_fetch_time_series_data(r) ==
    LET data == _parse_trpc_response(r.json)
        converted == from_api_response(data.type)
        wrapped == Raise("InvalidResponseError", "malformed-response",
                         << "Invalid", "time", "series", "response" >>)
    IN  CASE data.tag = "raise" -> IF CaughtByFetch(data) THEN wrapped ELSE data
          [] converted.tag = "raise" ->
                IF CaughtByFetch(converted) THEN wrapped ELSE converted
          [] OTHER -> Return("time_series")

(***************************************************************************)
(* Session cookies                                                         *)
(*                                                                         *)
(* A cookie name is a sequence of pieces, so that startswith() is a test   *)
(* of the first piece and == is equality of the whole sequence.            *)
(***************************************************************************)
StartsWith(name, prefix) == Len(name) >= 1 /\ name[1] = prefix

\* mutant: the SSO names are matched as prefixes, and "__Host-" cookies are
\* sent to the identity provider
_get_cookie_domain_Prefix(cookie_name) ==
    IF \/ StartsWith(cookie_name, "amlbcookie")
       \/ StartsWith(cookie_name, "18dddeef3f61363")
       \/ StartsWith(cookie_name, "__Host-")
    THEN ".sso.fortum.com"
    ELSE "www.fortum.com"

_get_cookie_domain(cookie_name) ==
    IF cookie_name \in { << "amlbcookie" >>, << "18dddeef3f61363" >> }
    THEN ".sso.fortum.com"
    ELSE IF \/ StartsWith(cookie_name, "__Host-")
            \/ StartsWith(cookie_name, "__Secure-")
            \/ cookie_name = << "NEXT_LOCALE" >>
    THEN "www.fortum.com"
    ELSE "www.fortum.com"

\* what auth_client.session_cookies can hold when an attempt reads it
CookieJars ==
    { { },
      { << "amlbcookie" >>, << "__Secure-", "xyz" >>, << "anything_else" >> },
      { << "18dddeef3f61363" >>, << "__Host-", "x" >>, << "NEXT_LOCALE" >>,
        << "amlbcookie", "2" >> } }

\* lines 249-275: the cookies set on the client, given the jar the attempt read
AttachCookies(jar) ==
    [jar |-> jar,
     cookies |-> { [name |-> n, domain |-> _get_cookie_domain(n)] : n \in jar }]

NoCookies == [jar |-> { }, cookies |-> { }]

(***************************************************************************)
(* Request headers                                                         *)
(***************************************************************************)
\* what auth_client.access_token can hold when an attempt reads it: None,
\* the sentinel, or a real token
AccessTokens == { "none", SESSION_BASED, "tokenA", "tokenB" }

\* mutant: the Bearer header is added whatever the URL
RequestHeaders_AnyUrl(u, token) ==
    [token |-> token,
     authorization |-> IF token # "none" /\ token # SESSION_BASED
                       THEN << "Bearer", token >> ELSE << >>]

\* lines 278-299: the Authorization header of an attempt (<< >> when absent),
\* given the URL and the access token the attempt read
RequestHeaders(u, token) ==
    [token |-> token,
     authorization |-> IF /\ u.kind # "trpc"
                          /\ u.kind # "session"
                          /\ token # "none"
                          /\ token # SESSION_BASED
                       THEN << "Bearer", token >> ELSE << >>]

NoHeaders == [token |-> "none", authorization |-> << >>]

(***************************************************************************)
(* The state machine                                                       *)
(***************************************************************************)
Modes == { SESSION_BASED, "real", "none" }

Init ==
    /\ pc = "idle"
    /\ op = "none"
    /\ url = NoUrl
    /\ retry_count = 0
    /\ refresh_token \in Modes
    /\ expiry \in { "valid", "lead", "expired" }
    /\ held = 0
    /\ response = NoResponse
    /\ pending = Nothing
    /\ result = Nothing
    /\ tier = 0
    /\ requested = NoRange
    /\ gets = 0
    /\ delays = << >>
    /\ resps = << >>
    /\ all401 = TRUE
    /\ modes = { }
    /\ events = << >>
    /\ modeChanges = 0
    /\ ticks = 0
    /\ requests = << >>
    /\ failures = << >>
    /\ proactive = TRUE
    /\ attached = NoCookies
    /\ decoded = Nothing
    /\ sent = NoHeaders
    /\ pc2 = "idle"

\* the history of one logical GET starts empty
FreshHistory ==
    /\ gets' = 0
    /\ delays' = << >>
    /\ resps' = << >>
    /\ all401' = TRUE
    /\ modes' = { refresh_token }
    /\ events' = << >>

\* a caller (get_customer_details, get_metering_points, test_connection)
\* awaits self._get(get_session_url(locale)), or _get is awaited with a URL
\* of another endpoint
CallGet ==
    /\ pc = "idle"
    /\ pc' = "entry"
    /\ op' = "get"
    /\ url' \in { SessionUrl, OtherUrl }
    /\ retry_count' = 0
    /\ result' = Nothing
    /\ requests' = << >>
    /\ failures' = << >>
    /\ FreshHistory
    /\ modeChanges' = 0
    /\ ticks' = 0
    /\ proactive' = TRUE
    /\ UNCHANGED << refresh_token, expiry, held, response, pending,
                    tier, requested,
                    attached, decoded, sent, pc2 >>

\* a caller awaits get_time_series_data(points, from_date, to_date):
\* tier 1 calls _fetch_time_series_data, which awaits self._get(url)
CallTimeSeries ==
    /\ pc = "idle"
    /\ \E req \in RequestedRanges, dom \in {1, 31} :
        LET range == TierRange(1, req, dom)
        IN  /\ requested' = req
            /\ url' = Url("trpc", range.from, range.to)
            /\ requests' = << range >>
    /\ pc' = "entry"
    /\ op' = "ts"
    /\ tier' = 1
    /\ retry_count' = 0
    /\ result' = Nothing
    /\ failures' = << >>
    /\ FreshHistory
    /\ modeChanges' = 0
    /\ ticks' = 0
    /\ proactive' = TRUE
    /\ UNCHANGED << refresh_token, expiry, held, response, pending,
                    attached, decoded, sent, pc2 >>

\* a caller awaits _ensure_valid_token(proactive) itself
CallEnsureValidToken ==
    /\ pc = "idle"
    /\ pc' = "gate"
    /\ op' = "ensure"
    /\ \E b \in BOOLEAN : proactive' = b
    /\ url' = NoUrl
    /\ retry_count' = 0
    /\ result' = Nothing
    /\ requests' = << >>
    /\ failures' = << >>
    /\ FreshHistory
    /\ modeChanges' = 0
    /\ ticks' = 0
    /\ UNCHANGED << refresh_token, expiry, held, response, pending,
                    tier, requested, attached, decoded, sent, pc2 >>

\* _get, lines 239-243: the ceiling of this frame, and the check against it
_get_entry ==
    /\ pc = "entry"
    /\ IF retry_count >= MaxRetries(refresh_token)
       THEN /\ pending' = Raise("APIError", "max-retries",
                                << "Maximum", "retry", "attempts",
                                   MaxRetriesStr(refresh_token), "exceeded", "for",
                                   UrlStr(url) >>)
            /\ pc' = "unwind"
       ELSE /\ pending' = Nothing
            /\ pc' = "gate"
    /\ UNCHANGED << op, url, retry_count, refresh_token, expiry, held, response,
                    result, tier, requested, gets, delays, resps, all401, modes, events,
                    modeChanges, ticks, requests, failures,
                    proactive, attached, decoded, sent, pc2 >>

(***************************************************************************)
(* The collaborator (auth.py)                                              *)
(***************************************************************************)
\* needs_renewal(): the credential expires within the lead window
needs_renewal(e) == e \in { "lead", "expired" }

\* is_token_expired()
is_token_expired(e) == e = "expired"

\* refresh_access_token() or authenticate() succeeded: a fresh credential,
\* in whichever auth mode the collaborator ends up
Renewed ==
    /\ expiry' = "valid"
    /\ \E m \in Modes :
        /\ m # refresh_token => modeChanges < MaxModeChanges
        /\ refresh_token' = m
        /\ modes' = modes \cup { m }
        /\ modeChanges' = IF m = refresh_token THEN modeChanges ELSE modeChanges + 1

\* time passes while the coroutine is suspended
Tick ==
    /\ pc \in { "await_get", "sleep" }
    /\ ticks < MaxTicks
    /\ expiry # "expired"
    /\ expiry' = IF expiry = "valid" THEN "lead" ELSE "expired"
    /\ ticks' = ticks + 1
    /\ UNCHANGED << pc, op, url, retry_count, refresh_token, held, response, pending,
                    result, tier, requested, gets, delays, resps, all401, modes, events,
                    modeChanges, requests, failures,
                    proactive, attached, decoded, sent, pc2 >>

(***************************************************************************)
(* _ensure_valid_token                                                     *)
(***************************************************************************)
\* mutant: the lead window counts whether or not the call is proactive
NeedsRefresh_AlwaysProactive(pro, e) == needs_renewal(e) \/ is_token_expired(e)

\* lines 504-511
NeedsRefresh(pro, e) ==
    IF pro /\ needs_renewal(e) THEN TRUE
    ELSE IF is_token_expired(e) THEN TRUE
    ELSE FALSE

\* mutant: only the sentinel counts as "no real refresh token"
HasRealRefreshToken_NotSentinel(rt) == rt # SESSION_BASED

\* lines 515-518: a real refresh token is present
HasRealRefreshToken(rt) == rt # "none" /\ rt # SESSION_BASED

\* where the coroutine continues once _ensure_valid_token has returned:
\* line 247 of _get, or the caller that awaited the gate itself
AfterGate == IF op = "ensure" THEN "unwind" ELSE "acquire"

\* mutant: the gate marks the credential valid itself instead of asking the
\* collaborator
_ensure_valid_token_SelfRenew ==
    /\ pc = "gate"
    /\ pc' = AfterGate
    /\ events' = Append(events, "gate")
    /\ expiry' = "valid"
    /\ UNCHANGED << op, url, retry_count, refresh_token, held, response,
                    pending, result, tier, requested, gets, delays, resps, all401, modes,
                    modeChanges, ticks, requests, failures, proactive, attached, decoded,
                    sent, pc2 >>

\* lines 504-535 up to the first await
_ensure_valid_token ==
    /\ pc = "gate"
    /\ IF ~NeedsRefresh(proactive, expiry)
       THEN /\ pc' = AfterGate
            /\ events' = Append(events, "gate")
       ELSE IF HasRealRefreshToken(refresh_token)
       THEN /\ pc' = "gate_refresh"
            /\ events' = events \o << "gate", "refresh" >>
       ELSE /\ pc' = "gate_auth"
            /\ events' = events \o << "gate", "authenticate" >>
    /\ UNCHANGED << op, url, retry_count, refresh_token, expiry, held, response,
                    pending, result, tier, requested, gets, delays, resps, all401, modes,
                    modeChanges, ticks, requests, failures,
                    proactive, attached, decoded, sent, pc2 >>

\* line 521 returns, or raises and line 529 starts authenticate()
GateRefreshDone ==
    /\ pc = "gate_refresh"
    /\ \/ /\ Renewed
          /\ pc' = AfterGate
          /\ events' = events
       \/ /\ pc' = "gate_auth"
          /\ events' = Append(events, "authenticate")
          /\ UNCHANGED << refresh_token, expiry, modeChanges, modes >>
    /\ UNCHANGED << op, url, retry_count, held, response, pending, result, tier,
                    requested, gets, delays, resps, all401, ticks, requests,
                    failures,
                    proactive, attached, decoded, sent, pc2 >>

\* mutant: the gate runs inside the try block of _get, so its exception goes
\* through the handlers of lines 308-314
GateAuthenticateDone_InsideTry ==
    /\ pc = "gate_auth"
    /\ \/ /\ Renewed
          /\ pc' = AfterGate
          /\ pending' = pending
       \/ /\ \E type \in { "APIError", "Exception" } :
                pending' = IF type = "APIError"
                           THEN Raise(type, "gate-failure", << "authentication", "error" >>)
                           ELSE Raise("APIError", "request-failed",
                                      << "GET", "request", "failed" >>)
          /\ pc' = "unwind"
          /\ UNCHANGED << refresh_token, expiry, modeChanges, modes >>
    /\ UNCHANGED << op, url, retry_count, held, response, result, tier, requested,
                    gets, delays, resps, all401, events, ticks, requests,
                    failures,
                    proactive, attached, decoded, sent, pc2 >>

\* authenticate() of line 529 or 535 returns, or raises an exception of the
\* APIError family or of any other class, which leaves _get
GateAuthenticateDone ==
    /\ pc = "gate_auth"
    /\ \/ /\ Renewed
          /\ pc' = AfterGate
          /\ pending' = pending
       \/ /\ \E type \in { "APIError", "Exception" } :
                pending' = Raise(type, "gate-failure", << "authentication", "error" >>)
          /\ pc' = "unwind"
          /\ UNCHANGED << refresh_token, expiry, modeChanges, modes >>
    /\ UNCHANGED << op, url, retry_count, held, response, result, tier, requested,
                    gets, delays, resps, all401, events, ticks, requests,
                    failures,
                    proactive, attached, decoded, sent, pc2 >>

(***************************************************************************)
(* _get: one physical attempt                                              *)
(***************************************************************************)
\* lines 247-275: the client of this attempt is entered and the session
\* cookies the collaborator holds at this moment are set on it
AcquireClient ==
    /\ pc = "acquire"
    /\ held' = held + 1
    /\ \E jar \in CookieJars : attached' = AttachCookies(jar)
    /\ events' = Append(events, "acquire")
    /\ pc' = "send"
    /\ UNCHANGED << op, url, retry_count, refresh_token, expiry, response, pending,
                    result, tier, requested, gets, delays, resps, all401, modes, modeChanges,
                    ticks, requests, failures,
                    proactive, decoded, sent, pc2 >>

\* lines 277-299: the headers of this attempt are built from the access
\* token the collaborator holds at this moment
BuildHeaders ==
    /\ pc = "send"
    /\ \E token \in AccessTokens : sent' = RequestHeaders(url, token)
    /\ attached' = NoCookies
    /\ pc' = "request"
    /\ UNCHANGED << op, url, retry_count, refresh_token, expiry, held, response,
                    pending, result, tier, requested, gets, delays, resps, all401, modes,
                    events, modeChanges, ticks, requests, failures, proactive, decoded,
                    pc2 >>

\* line 306: client.get is awaited
SendGet ==
    /\ pc = "request"
    /\ sent' = NoHeaders
    /\ gets' = gets + 1
    /\ events' = Append(events, "get")
    /\ pc' = "await_get"
    /\ UNCHANGED << op, url, retry_count, refresh_token, expiry, held, response,
                    pending, result, tier, requested, delays, resps, all401, modes, modeChanges,
                    ticks, requests, failures, proactive, attached, decoded, pc2 >>

\* lines 307-314 and _handle_retry_logic, given the outcome o of
\* _handle_response, the refresh token rt read at line 324 and the events ev
\* of the attempt so far
Dispatch(o, rt, ev) ==
    LET out == _get_outcome(o, rt, retry_count)
    IN  IF out.tag = "retry"
        THEN /\ delays' = Append(delays, [ms |-> RetryDelay(rt, retry_count),
                                          mode |-> rt, attempt |-> retry_count])
             /\ events' = << "delay" >>
             /\ pending' = Nothing
             /\ pc' = "sleep"
        ELSE /\ delays' = delays
             /\ events' = ev
             /\ pending' = out
             /\ pc' = "unwind"

\* client.get returns r (or raises, status 0) and _handle_response runs up
\* to its end or to the await of the 401 branch
ReceiveResponse ==
    /\ pc = "await_get"
    /\ \E r \in Responses :
        \* the local `response` lives on only where the code still reads it
        /\ response' = IF r.status = 401 \/ (r.status = 200 /\ r.text # << >>)
                       THEN r ELSE NoResponse
        /\ resps' = LastTwo(Append(resps, RespClass(r)))
        /\ all401' = (all401 /\ r.status = 401)
        /\ IF r.status = 401
           THEN /\ pc' = "refresh401"
                /\ events' = Append(events, "refresh")
                /\ UNCHANGED << pending, delays >>
           ELSE IF r.status = 0
           THEN Dispatch(Raise("Exception", "transport", << "ConnectError" >>),
                         refresh_token, events)
           ELSE Dispatch(_handle_response(r, "ok"), refresh_token, events)
    /\ UNCHANGED << op, url, retry_count, refresh_token, expiry, held, result, tier,
                    requested, gets, modes, modeChanges, ticks, requests, failures,
                    proactive, attached, decoded, sent, pc2 >>

\* _handle_unauthorized_response: refresh_access_token() of line 408 returns
\* or raises
Refresh401Done ==
    /\ pc = "refresh401"
    /\ \/ /\ Renewed
          /\ Dispatch(_handle_response(response, "ok"), refresh_token',
                      Append(events, "refresh_ok"))
       \/ /\ UNCHANGED << refresh_token, expiry, modeChanges, modes >>
          /\ Dispatch(_handle_response(response, "failed"), refresh_token,
                      Append(events, "refresh_failed"))
    /\ response' = NoResponse
    /\ UNCHANGED << op, url, retry_count, held, result, tier, requested,
                    gets, resps, all401, ticks, requests, failures,
                    proactive, attached, decoded, sent, pc2 >>

\* mutant: the retry goes straight to the client, past the gate
WakeUp_SkipGate ==
    /\ pc = "sleep"
    /\ retry_count' = retry_count + 1
    /\ pc' = "acquire"
    /\ UNCHANGED << op, url, refresh_token, expiry, held, response, pending, result,
                    tier, requested, gets, delays, resps, all401, modes, events, modeChanges,
                    ticks, requests, failures, proactive, attached, decoded, sent, pc2 >>

\* asyncio.sleep(delay) of line 353 ends; line 356 calls _get(url, retry_count + 1)
WakeUp ==
    /\ pc = "sleep"
    /\ retry_count' = retry_count + 1
    /\ pc' = "entry"
    /\ UNCHANGED << op, url, refresh_token, expiry, held, response, pending, result,
                    tier, requested, gets, delays, resps, all401, modes, events, modeChanges,
                    ticks, requests, failures,
                    proactive, attached, decoded, sent, pc2 >>

\* mutant: only the innermost frame releases its client
FramesHoldingClient_Innermost ==
    IF \E i \in 1..Len(events) : events[i] = "acquire" THEN 1 ELSE 0

\* the _get frames of the current logical GET that are inside their
\* `async with` block: every outer frame (it awaits the retry of line 356
\* from inside the block) and the innermost one once it passed line 247
FramesHoldingClient ==
    retry_count + IF \E i \in 1..Len(events) : events[i] = "acquire" THEN 1 ELSE 0

\* the value or exception leaves every _get frame, each frame's `async with`
\* block (line 247) releasing its client on the way, and reaches the caller
ReturnToCaller ==
    /\ pc = "unwind"
    /\ op \in { "get", "ensure" }
    /\ held' = held - FramesHoldingClient
    /\ result' = pending
    /\ pending' = Nothing
    /\ pc' = "done"
    /\ UNCHANGED << op, url, retry_count, refresh_token, expiry, response,
                    tier, requested, gets, delays, resps, all401, modes, events,
                    modeChanges, ticks, requests, failures,
                    proactive, attached, decoded, sent, pc2 >>

(***************************************************************************)
(* get_time_series_data                                                    *)
(***************************************************************************)
\* what _fetch_time_series_data hands to get_time_series_data once the
\* outermost _get frame has ended with p
FetchResult(p, r) == IF p.tag = "return" THEN _fetch_time_series_data(r) ELSE p

\* the history's record of the failure o of tier t: its class ("APIError"
\* for the whole family `except APIError` catches) and, for the tier-1
\* failure (the one line 116 inspects), its kind and whether its message is
\* the one that suggests reducing the date range
Failure(t, o) ==
    [type |-> IF IsAPIError(o) THEN "APIError" ELSE o.type,
     kind |-> IF t = 1 THEN o.kind ELSE "any",
     reduce |-> t = 1 /\ Contains(o.msg, << "reducing", "date", "range" >>)]

\* mutant: the ladder stops after the 30-day tier
NextTier_NoFinalTier(t, o) == t = 1 /\ IsAPIError(o) /\ LadderTrigger(o)

\* lines 115-138: does the failure o of tier t lead to the next tier
NextTier(t, o) ==
    CASE t = 1 -> IsAPIError(o) /\ LadderTrigger(o)
      [] t = 2 -> IsAPIError(o)
      [] OTHER -> FALSE

\* _fetch_time_series_data of the current tier ends and get_time_series_data
\* returns, raises, or calls _fetch_time_series_data for the next tier
TimeSeriesTier ==
    /\ pc = "unwind"
    /\ op = "ts"
    /\ held' = held - FramesHoldingClient
    /\ LET o == FetchResult(pending, response)
       IN  /\ failures' = IF o.tag = "raise"
                         THEN Append(failures, Failure(tier, o))
                         ELSE failures
           /\ IF o.tag = "raise" /\ NextTier(tier, o)
              THEN LET range == TierRange(tier + 1, requested, 1)
                   IN  /\ tier' = tier + 1
                       /\ url' = Url("trpc", range.from, range.to)
                       /\ requests' = Append(requests, range)
                       /\ retry_count' = 0
                       /\ response' = NoResponse
                       /\ decoded' = Nothing
                       /\ result' = result
                       /\ pc' = "entry"
                       /\ FreshHistory
              ELSE /\ result' = o
                   /\ decoded' = IF pending.tag = "return"
                                 THEN _parse_trpc_response(response.json)
                                 ELSE Nothing
                   /\ pc' = "done"
                   /\ UNCHANGED << tier, url, requests, retry_count, response, gets,
                                   delays, resps, all401, modes, events >>
    /\ pending' = Nothing
    /\ UNCHANGED << op, refresh_token, expiry, requested, modeChanges, ticks,
                    proactive, attached, sent, pc2 >>

\* the caller has its answer; the client object is idle again
Finish ==
    /\ pc = "done"
    /\ pc' = "idle"
    /\ op' = "none"
    /\ url' = NoUrl
    /\ retry_count' = 0
    /\ response' = NoResponse
    /\ result' = Nothing
    /\ tier' = 0
    /\ requested' = NoRange
    /\ requests' = << >>
    /\ failures' = << >>
    /\ FreshHistory
    /\ modeChanges' = 0
    /\ ticks' = 0
    /\ proactive' = TRUE
    /\ decoded' = Nothing
    /\ UNCHANGED << refresh_token, expiry, held, pending,
                    attached, sent, pc2 >>

Next ==
    \/ CallGet
    \/ CallTimeSeries
    \/ CallEnsureValidToken
    \/ _get_entry
    \/ _ensure_valid_token
    \/ GateRefreshDone
    \/ GateAuthenticateDone
    \/ AcquireClient
    \/ BuildHeaders
    \/ SendGet
    \/ ReceiveResponse
    \/ Refresh401Done
    \/ WakeUp
    \/ ReturnToCaller
    \/ TimeSeriesTier
    \/ Finish
    \/ Tick

Spec == Init /\ [][Next]_vars

(***************************************************************************)
(* A second logical GET on the same client object                          *)
(***************************************************************************)
\* the positions at which the first coroutine is suspended in an await (or
\* is not running): only there can the event loop run another coroutine
Suspended ==
    pc \in { "idle", "gate_refresh", "gate_auth", "await_get", "refresh401", "sleep",
              "done" }

\* mutant: a renewal call already in flight is waited for instead of
\* starting another one
SecondGetStart_Coalesced ==
    /\ pc2 = "idle"
    /\ Suspended
    /\ IF ~NeedsRefresh(TRUE, expiry) \/ pc \in { "gate_refresh", "gate_auth", "refresh401" }
       THEN pc2' = "passed"
       ELSE IF HasRealRefreshToken(refresh_token)
       THEN pc2' = "gate_refresh"
       ELSE pc2' = "gate_auth"
    /\ UNCHANGED << pc, op, url, retry_count, refresh_token, expiry, held, response,
                    pending, result, tier, requested, gets, delays, resps, all401, modes,
                    events, modeChanges, ticks, requests, failures, proactive, attached,
                    decoded, sent >>

\* another coroutine awaits _get(url): lines 239-245 and _ensure_valid_token
\* (lines 504-518) run up to its first await, which is refresh_access_token()
\* (521), authenticate() (535), or, the gate passed, client.get (306)
SecondGetStart ==
    /\ pc2 = "idle"
    /\ Suspended
    /\ IF ~NeedsRefresh(TRUE, expiry)
       THEN pc2' = "passed"
       ELSE IF HasRealRefreshToken(refresh_token)
       THEN pc2' = "gate_refresh"
       ELSE pc2' = "gate_auth"
    /\ UNCHANGED << pc, op, url, retry_count, refresh_token, expiry, held, response,
                    pending, result, tier, requested, gets, delays, resps, all401, modes,
                    events, modeChanges, ticks, requests, failures, proactive, attached,
                    decoded, sent >>

\* line 521 of the second coroutine returns, or raises and line 529 starts
\* authenticate()
SecondGetRefreshDone ==
    /\ pc2 = "gate_refresh"
    /\ Suspended
    /\ \/ /\ Renewed
          /\ pc2' = "passed"
       \/ /\ pc2' = "gate_auth"
          /\ UNCHANGED << refresh_token, expiry, modeChanges, modes >>
    /\ UNCHANGED << pc, op, url, retry_count, held, response, pending, result, tier,
                    requested, gets, delays, resps, all401, events, ticks, requests,
                    failures, proactive, attached, decoded, sent >>

\* authenticate() of line 529 or 535 of the second coroutine returns or raises
SecondGetAuthenticateDone ==
    /\ pc2 = "gate_auth"
    /\ Suspended
    /\ \/ /\ Renewed
          /\ pc2' = "passed"
       \/ /\ pc2' = "failed"
          /\ UNCHANGED << refresh_token, expiry, modeChanges, modes >>
    /\ UNCHANGED << pc, op, url, retry_count, held, response, pending, result, tier,
                    requested, gets, delays, resps, all401, events, ticks, requests,
                    failures, proactive, attached, decoded, sent >>

\* the second logical GET ends (what it does after its gate is not followed)
SecondGetEnd ==
    /\ pc2 \in { "passed", "failed" }
    /\ Suspended
    /\ pc2' = "idle"
    /\ UNCHANGED << pc, op, url, retry_count, refresh_token, expiry, held, response,
                    pending, result, tier, requested, gets, delays, resps, all401, modes,
                    events, modeChanges, ticks, requests, failures, proactive, attached,
                    decoded, sent >>

\* two logical GETs interleaved at their suspension points
NextConcurrent ==
    \/ CallGet
    \/ _get_entry
    \/ _ensure_valid_token
    \/ GateRefreshDone
    \/ GateAuthenticateDone
    \/ AcquireClient
    \/ BuildHeaders
    \/ SendGet
    \/ ReceiveResponse
    \/ Refresh401Done
    \/ WakeUp
    \/ ReturnToCaller
    \/ Finish
    \/ Tick
    \/ SecondGetStart
    \/ SecondGetRefreshDone
    \/ SecondGetAuthenticateDone
    \/ SecondGetEnd

SpecConcurrent == Init /\ [][NextConcurrent]_vars

(***************************************************************************)
(* One logical GET under a fair event loop                                 *)
(***************************************************************************)
\* the steps of a started logical GET: the event loop resumes a runnable
\* coroutine, and every await of _get (the collaborator's calls, client.get
\* with its timeout, asyncio.sleep) completes
GetStep ==
    \/ _get_entry
    \/ _ensure_valid_token
    \/ GateRefreshDone
    \/ GateAuthenticateDone
    \/ AcquireClient
    \/ BuildHeaders
    \/ SendGet
    \/ ReceiveResponse
    \/ Refresh401Done
    \/ WakeUp
    \/ ReturnToCaller

NextGet ==
    \/ CallGet
    \/ _get_entry
    \/ _ensure_valid_token
    \/ GateRefreshDone
    \/ GateAuthenticateDone
    \/ AcquireClient
    \/ BuildHeaders
    \/ SendGet
    \/ ReceiveResponse
    \/ Refresh401Done
    \/ WakeUp
    \/ ReturnToCaller
    \/ Finish
    \/ Tick

SpecGetFair == Init /\ [][NextGet]_vars /\ WF_vars(GetStep)

(***************************************************************************)
(* Vocabulary of the properties                                            *)
(***************************************************************************)
\* the current logical GET has ended; pending is what it hands to its caller
GetEnded == pc = "unwind" /\ op # "ensure"

\* the auth mode was the same throughout the current logical GET
ModeConstant == Cardinality(modes) = 1

LastResp == IF resps = << >> THEN "none" ELSE resps[Len(resps)]

\* the response classes whose handling raises the retry signal
SignalResps == { "401", "307expired" }

\* the response classes that are failures of another kind
NonTransientResps == { "403", "500", "other", "200empty", "307other", "transport" }

DelayMs == [i \in 1..Len(delays) |-> delays[i].ms]

IsPrefix(p, q) == Len(p) <= Len(q) /\ \A i \in 1..Len(p) : p[i] = q[i]

\* the collaborator was asked for a token during the current attempt
FetchedThisAttempt ==
    \E i \in 1..Len(events) : events[i] \in { "refresh", "authenticate" }

\* the events of the gate run of the current attempt and what followed it
GateSegment ==
    IF events # << >> /\ events[1] = "delay" THEN Tail(events) ELSE events

\* the gate of the current attempt returned without an exception: _get is at
\* line 247, or the caller of the gate has its None
GatePassed ==
    \/ pc = "acquire"
    \/ pc = "unwind" /\ op = "ensure" /\ pending = Nothing

\* the current attempt has sent its GET
GetSentThisAttempt == \E i \in 1..Len(events) : events[i] = "get"

\* the events of the current attempt after its GET was sent
AfterGetEvents ==
    LET at == { i \in 1..Len(events) : events[i] = "get" }
    IN  IF at = { } THEN << >>
        ELSE SubSeq(events, (CHOOSE i \in at : TRUE) + 1, Len(events))

\* what the current logical request ended with
Outcome == IF pc = "unwind" THEN pending ELSE result

TypeOK ==
    /\ pc \in { "idle", "entry", "gate", "gate_refresh", "gate_auth", "acquire", "send",
                 "request", "await_get", "refresh401", "sleep", "unwind", "done" }
    /\ retry_count \in 0..MAX_ATTEMPTS_SESSION
    /\ held \in 0..MAX_ATTEMPTS_SESSION
    /\ gets \in 0..MAX_ATTEMPTS_SESSION
    /\ tier \in 0..3

(***************************************************************************)
(* Properties                                                              *)
(***************************************************************************)

\* C1: a logical GET whose every response was a 401, whose every token
\* renewal succeeded and whose auth mode never changed ends after exactly 5
\* physical GETs in session-cookie mode and exactly 2 in credential-token mode.
C1_AttemptsOn401 ==
    ( /\ GetEnded
      /\ gets > 0
      /\ all401
      /\ ModeConstant
      /\ pending.kind \notin { "fatal-auth", "gate-failure" } )
    => /\ pending.tag = "raise"
       /\ refresh_token = SESSION_BASED => gets = 5
       /\ refresh_token = "real" => gets = 2

C1_Witness ==
    /\ GetEnded
    /\ all401
    /\ ModeConstant
    /\ refresh_token = SESSION_BASED
    /\ pending.tag = "raise"
    /\ pending.kind \notin { "fatal-auth", "gate-failure" }
    /\ gets = 5

\* C2: a logical GET that ends because its last attempt raised the retry
\* signal with no retry left fails with the "maximum retries exceeded" error,
\* which carries the URL.
C2_MaxRetriesDelivered ==
    ( /\ GetEnded
      /\ LastResp \in SignalResps
      /\ pending.kind \notin { "fatal-auth", "gate-failure" } )
    => /\ pending.kind = "max-retries"
       /\ Contains(pending.msg, << "Maximum", "retry", "attempts" >>)
       /\ Contains(pending.msg, << UrlStr(url) >>)

\* C3: the retry signal "Token expired - retry required" never reaches the
\* caller of a logical GET.
C3_SignalNeverEscapes ==
    /\ GetEnded => pending.msg # TOKEN_EXPIRED_RETRY_MSG
    /\ result.msg # TOKEN_EXPIRED_RETRY_MSG

\* C4: the delays slept in session-cookie mode are 5 s before the first
\* retry, 10 s before the second, 15 s before the third and 20 s before the
\* fourth; with the mode constant they are 5, 10, 15, 20 in that order, and
\* there is no fifth delay.
C4_SessionDelays ==
    /\ \A i \in 1..Len(delays) :
          delays[i].mode = SESSION_BASED =>
             /\ delays[i].attempt = i - 1
             /\ delays[i].ms = 5000 * i
    /\ Len(delays) <= 4
    /\ (ModeConstant /\ refresh_token = SESSION_BASED) =>
          IsPrefix(DelayMs, << 5000, 10000, 15000, 20000 >>)

C4_Witness ==
    /\ GetEnded
    /\ ModeConstant
    /\ refresh_token = SESSION_BASED
    /\ DelayMs = << 5000, 10000, 15000, 20000 >>

\* C5 as stated: a logical GET in credential-token mode that keeps receiving
\* the retry signal until it fails has slept 0.1 s and then 0.2 s.
C5_TokenDelaysAsStated ==
    ( /\ GetEnded
      /\ ModeConstant
      /\ refresh_token = "real"
      /\ pending.kind = "transient-auth-expired" )
    => DelayMs = << 100, 200 >>

\* C5 amended: outside session-cookie mode a delay is slept only before the
\* first retry and is 0.1 s (0.1 x 2^0); a logical GET that stays in
\* credential-token mode sleeps at most once, and exactly once, 0.1 s, when it
\* keeps receiving the retry signal until it fails.
C5_TokenDelay ==
    /\ \A i \in 1..Len(delays) :
          delays[i].mode # SESSION_BASED =>
             /\ i = 1
             /\ delays[i].attempt = 0
             /\ delays[i].ms = 100
    /\ (ModeConstant /\ refresh_token = "real") => Len(delays) <= 1
    /\ ( /\ GetEnded
         /\ ModeConstant
         /\ refresh_token = "real"
         /\ pending.kind = "transient-auth-expired" )
       => DelayMs = << 100 >>

C5_Witness ==
    /\ GetEnded
    /\ ModeConstant
    /\ refresh_token = "real"
    /\ pending.kind = "transient-auth-expired"
    /\ gets = 2
    /\ DelayMs = << 100 >>

\* C6: after a 307 whose Location names both "sign-out" and "TokenExpired",
\* the retried GET is sent only after the collaborator was asked for a token
\* (refresh or re-authentication); and when the next response is a 200 the
\* request ends successfully after that one retry.
C6_RetryFetchesToken ==
    /\ (pc = "await_get" /\ retry_count > 0 /\ LastResp = "307expired")
          => FetchedThisAttempt
    /\ (GetEnded /\ gets = 2 /\ resps = << "307expired", "200" >>)
          => (Len(delays) = 1 /\ pending = Return("response"))

\* C7: after a response that is a failure of another kind than the retry
\* signal (403, 500, another non-200 status, an empty 200, a 307 to another
\* location, a transport failure) the logical GET has ended: the failure
\* goes to the caller, and no delay and no further GET followed the response.
C7_OtherFailuresNotRetried ==
    LastResp \in NonTransientResps =>
        /\ pc \in { "unwind", "done" }
        /\ Len(delays) = gets - 1
        /\ pc = "unwind" => pending.tag = "raise"
        /\ pc = "done" => result.tag = "raise"

C7_Witness ==
    /\ GetEnded
    /\ LastResp = "500"
    /\ gets = 3
    /\ Len(delays) = 2
    /\ pending.kind = "transient-server"

\* C8: a 200 response with an empty body ends the logical GET with the
\* malformed-response failure "Empty response from API"; it is neither
\* returned as a success nor followed by a delay or another GET.
C8_EmptyBodyFails ==
    LastResp = "200empty" =>
        /\ pc \in { "unwind", "done" }
        /\ Len(delays) = gets - 1
        /\ (IF pc = "unwind" THEN pending ELSE result)
              = Raise("InvalidResponseError", "malformed-response",
                      << "Empty", "response", "from", "API" >>)

C8_Witness ==
    /\ pc = "done"
    /\ op = "get"
    /\ LastResp = "200empty"
    /\ gets = 2
    /\ result.kind = "malformed-response"

\* the tier-1 request failed with the 500 / INTERNAL_SERVER_ERROR failure
Tier1ReduceRange ==
    /\ Len(failures) >= 1
    /\ failures[1].kind = "transient-server"
    /\ failures[1].reduce

\* C9 as stated: after a tier-1 failure with 500 / INTERNAL_SERVER_ERROR a
\* second request for the last 30 days is issued; if that fails, whatever the
\* failure, a third for the last 7 days; and the result of a successful third
\* request is returned.
C9_LadderAsStated ==
    /\ Tier1ReduceRange =>
          (Len(requests) >= 2 /\ requests[2] = [from |-> -30, to |-> 0])
    /\ (Tier1ReduceRange /\ Len(failures) >= 2) =>
          (Len(requests) >= 3 /\ requests[3] = [from |-> -7, to |-> 0])
    /\ (Tier1ReduceRange /\ pc = "done" /\ tier = 3 /\ Len(failures) = 2) =>
          result = Return("time_series")

\* C9 amended: ... if the second request fails with an API error (a failure
\* of the APIError family) a third for the last 7 days is issued, and the
\* result of a successful third request is returned; a failure of the second
\* request that is no API error is raised to the caller without a third.
C9_Ladder ==
    /\ Tier1ReduceRange =>
          (Len(requests) >= 2 /\ requests[2] = [from |-> -30, to |-> 0])
    /\ (Tier1ReduceRange /\ Len(failures) >= 2) =>
          IF failures[2].type # "Exception"
          THEN Len(requests) >= 3 /\ requests[3] = [from |-> -7, to |-> 0]
          ELSE Len(requests) = 2 /\ pc = "done" /\ result.type = "Exception"
    /\ (Tier1ReduceRange /\ pc = "done" /\ tier = 3 /\ Len(failures) = 2) =>
          result = Return("time_series")

C9_Witness ==
    /\ Tier1ReduceRange
    /\ pc = "done"
    /\ tier = 3
    /\ Len(failures) = 2
    /\ requests[2] = [from |-> -30, to |-> 0]
    /\ requests[3] = [from |-> -7, to |-> 0]
    /\ result = Return("time_series")

\* C10: a tier-1 failure of any kind other than transient-server is raised
\* to the caller of get_time_series_data after that one pipeline request: no
\* 30-day and no 7-day request follows.
C10_OtherFailuresPropagate ==
    (Len(failures) >= 1 /\ failures[1].kind # "transient-server") =>
        /\ Len(requests) = 1
        /\ pc = "done"
        /\ result.kind = failures[1].kind

\* C11: when the gate finds renewal needed, it calls authenticate() and never
\* refresh_access_token() if the refresh token is the sentinel or absent; with
\* a real refresh token it calls refresh_access_token() first and
\* authenticate() only after that refresh failed; a gate run fails only when
\* authenticate() fails, so a failed refresh followed by a successful
\* authenticate() lets the gate return normally.
C11_GateRenewalPath ==
    /\ pc = "gate_refresh" =>
          (refresh_token = "real" /\ GateSegment = << "gate", "refresh" >>)
    /\ pc = "gate_auth" =>
          GateSegment = IF refresh_token = "real"
                        THEN << "gate", "refresh", "authenticate" >>
                        ELSE << "gate", "authenticate" >>
    /\ (GatePassed /\ GateSegment = << "gate" >>) =>
          ~(proactive /\ expiry \in { "lead", "expired" }) /\ expiry # "expired"
    /\ GatePassed =>
          GateSegment \in { << "gate" >>, << "gate", "refresh" >>,
                            << "gate", "authenticate" >>,
                            << "gate", "refresh", "authenticate" >> }
    /\ (pc = "unwind" /\ pending.kind = "gate-failure") =>
          events[Len(events)] = "authenticate"
    /\ (pc = "unwind" /\ op = "ensure" /\ pending.tag = "raise") =>
          pending.kind = "gate-failure"

C11_Witness ==
    /\ pc = "acquire"
    /\ retry_count = 1
    /\ pending = Nothing
    /\ GateSegment = << "gate", "refresh", "authenticate" >>

\* C12: on a 401 refresh_access_token() is called exactly once, whatever the
\* auth mode; when it succeeded the retry signal is raised, and the attempt
\* ends the logical GET with it only at the retry ceiling (below the ceiling
\* a retry follows); when it failed the logical GET ends with the fatal-auth failure
\* "Authentication failed ...", and no delay and no GET follow.
C12_RefreshOn401 ==
    /\ pc = "refresh401" => AfterGetEvents = << "refresh" >>
    /\ (pc = "unwind" /\ GetSentThisAttempt /\ LastResp = "401") =>
          \/ /\ AfterGetEvents = << "refresh", "refresh_ok" >>
             /\ pending.kind = "transient-auth-expired"
             /\ pending.msg = TOKEN_EXPIRED_RETRY_MSG
             /\ retry_count >= (IF refresh_token = SESSION_BASED THEN 4 ELSE 1)
          \/ /\ AfterGetEvents = << "refresh", "refresh_failed" >>
             /\ pending.kind = "fatal-auth"
             /\ Contains(pending.msg, << "Authentication", "failed" >>)
    /\ (\E i \in 1..Len(events) : events[i] = "refresh_failed") =>
          /\ pc \in { "unwind", "done" }
          /\ Outcome.kind = "fatal-auth"
          /\ Len(delays) = gets - 1

C12_Witness ==
    /\ pc = "unwind"
    /\ refresh_token = SESSION_BASED
    /\ gets = 2
    /\ Len(delays) = 1
    /\ AfterGetEvents = << "refresh", "refresh_failed" >>
    /\ pending.kind = "fatal-auth"

\* C13: _get_cookie_domain gives ".sso.fortum.com" for "amlbcookie" and
\* "18dddeef3f61363" and "www.fortum.com" for every other name, and every
\* attempt sets each cookie the collaborator holds on its client, once, with
\* that domain.
C13_CookieDomains ==
    LET Expected(n) ==
            IF n = << "amlbcookie" >> \/ n = << "18dddeef3f61363" >>
            THEN ".sso.fortum.com" ELSE "www.fortum.com"
    IN  /\ \A jar \in CookieJars : \A n \in jar : _get_cookie_domain(n) = Expected(n)
        /\ pc = "send" =>
              /\ \A n \in attached.jar :
                    { c \in attached.cookies : c.name = n }
                        = { [name |-> n, domain |-> Expected(n)] }
              /\ \A c \in attached.cookies : c.name \in attached.jar

C13_Witness ==
    /\ pc = "send"
    /\ retry_count = 1
    /\ [name |-> << "18dddeef3f61363" >>, domain |-> ".sso.fortum.com"] \in attached.cookies
    /\ [name |-> << "amlbcookie", "2" >>, domain |-> "www.fortum.com"] \in attached.cookies
    /\ [name |-> << "__Host-", "x" >>, domain |-> "www.fortum.com"] \in attached.cookies

\* C14: _parse_trpc_response returns the nested result.data.json value for a
\* non-empty list whose first element has that path, a plain object
\* unchanged, the empty object for an empty list, the first element of any
\* other non-empty list, and raises malformed-response for a body that is not
\* JSON.
C14_DecodeAsStated ==
    LET asStated ==
            CASE response.json = "invalid" ->
                    [kind |-> "malformed-response", type |-> "InvalidResponseError"]
              [] response.json = "list_result" -> [kind |-> "ok", type |-> "series"]
              [] response.json = "dict" -> [kind |-> "ok", type |-> "object"]
              [] response.json = "list_empty" -> [kind |-> "ok", type |-> "empty_object"]
              [] OTHER -> [kind |-> "ok", type |-> "item"]
    IN  decoded # Nothing =>
            (decoded.kind = asStated.kind /\ decoded.type = asStated.type)

\* C15: every transient-server failure of the tier-1 request is followed by
\* the tier-2 request for the last 30 days.
C15_TransientServerEntersLadder ==
    (Len(failures) >= 1 /\ failures[1].kind = "transient-server") =>
        (Len(requests) >= 2 /\ requests[2] = [from |-> -30, to |-> 0])

\* C16: at most one transport client is held at any moment, and none while
\* the backoff delay is slept.
C16_AtMostOneClient ==
    /\ held <= 1
    /\ pc = "sleep" => held = 0

\* C17: once a logical GET has handed its value or its exception to its
\* caller, no transport client acquired during it is still held.
C17_ClientsReleased ==
    /\ pc \in { "done", "idle" } => held = 0
    /\ (pc = "entry" /\ retry_count = 0) => held = 0

C17_Witness ==
    /\ pc = "done"
    /\ op = "get"
    /\ gets = 3
    /\ LastResp = "transport"
    /\ result.kind = "request-failed"
    /\ held = 0

\* C18: a logical GET that ends after a 500 response fails with a
\* transient-server failure, whatever the body of the 500.
C18_Every500TransientServer ==
    (pc = "unwind" /\ op # "ensure" /\ LastResp = "500") =>
        pending.kind = "transient-server"

\* C19: when a physical GET is in flight, the events of its attempt are, in
\* this order: the backoff delay (exactly when the attempt is a retry), one
\* gate run with the collaborator calls it made, the client acquisition, the
\* GET.
C19_GateBeforeEveryGet ==
    pc = "await_get" =>
        /\ (retry_count > 0) = (events[1] = "delay")
        /\ \E calls \in { << >>, << "refresh" >>, << "authenticate" >>,
                           << "refresh", "authenticate" >> } :
              GateSegment = << "gate" >> \o calls \o << "acquire", "get" >>

C19_Witness ==
    /\ pc = "await_get"
    /\ retry_count = 2
    /\ gets = 3
    /\ events = << "delay", "gate", "authenticate", "acquire", "get" >>

\* C20: a run of _ensure_valid_token calls neither refresh_access_token()
\* nor authenticate() and leaves the credential (refresh token and expiry) as
\* it was exactly when neither (proactive and the credential is inside the
\* lead window) nor (the credential is expired) holds; otherwise it starts one
\* of the two calls.
C20_GateNoOp ==
    [][ pc = "gate" =>
          IF (proactive /\ expiry \in { "lead", "expired" }) \/ expiry = "expired"
          THEN pc' \in { "gate_refresh", "gate_auth" }
          ELSE /\ pc' \in { "acquire", "unwind" }
               /\ events' = Append(events, "gate")
               /\ pending' = Nothing
               /\ UNCHANGED << refresh_token, expiry >> ]_vars

C20_Witness ==
    /\ op = "ensure"
    /\ ~proactive
    /\ expiry = "lead"
    /\ pc = "unwind"
    /\ events = << "gate" >>
    /\ pending = Nothing

\* the positions at which the coroutine awaits refresh_access_token() or
\* authenticate()
CollaboratorCallPcs == { "gate_refresh", "gate_auth", "refresh401" }

\* C21: no step of the pipeline or of the gate other than the return of the
\* collaborator's refresh_access_token() or authenticate() changes the
\* credential (refresh token, expiry); the credential otherwise only ages
\* with time.
C21_CredentialFrame ==
    [][ (pc \notin CollaboratorCallPcs /\ ticks' = ticks)
            => UNCHANGED << refresh_token, expiry >> ]_vars

C21_Witness ==
    /\ pc = "unwind"
    /\ op = "get"
    /\ gets = 2
    /\ modeChanges = 1
    /\ Cardinality(modes) = 2
    /\ pending = Return("response")

\* C22: the headers an attempt builds carry "Authorization: Bearer <token>"
\* exactly when the URL is neither the session URL nor an RPC URL and the
\* access token the collaborator holds at that attempt is present and is not
\* the sentinel; the value is that token.
C22_AuthorizationHeader ==
    pc = "request" =>
        LET expected == /\ url.kind \notin { "session", "trpc" }
                        /\ sent.token \notin { "none", "session_based" }
        IN  /\ (sent.authorization # << >>) = expected
            /\ expected => sent.authorization = << "Bearer", sent.token >>

C22_Witness ==
    /\ pc = "request"
    /\ url = OtherUrl
    /\ retry_count = 1
    /\ LastResp = "401"
    /\ sent.authorization = << "Bearer", "tokenB" >>

\* the number of days a range spans
Width(range) == range.to - range.from

LadderShape ==
    /\ Len(requests) <= 3
    /\ op = "ts" => Len(requests) = tier
    /\ Len(requests) >= 2 => requests[2] = [from |-> -30, to |-> 0]
    /\ Len(requests) >= 3 => requests[3] = [from |-> -7, to |-> 0]
    /\ (op = "ts" /\ gets = 0) => (retry_count = 0 /\ delays = << >>)
    /\ (op = "ts" /\ pc = "done" /\ tier = 3) =>
          \/ result = Return("time_series") /\ Len(failures) = 2
          \/ /\ result.tag = "raise"
             /\ Len(failures) = 3
             /\ failures[3].type = IF IsAPIError(result) THEN "APIError" ELSE result.type

\* C24 as stated: once the 30-day request was issued, any failure of it leads
\* to the 7-day request, whose result or failure goes to the caller; at most
\* 3 requests are issued, in the order requested range, 30 days, 7 days,
\* each starting with attempt counter 0.
C24_AnyTier2FailureAsStated ==
    /\ Len(failures) >= 2 => Len(requests) = 3
    /\ LadderShape

\* C24 amended: ... a failure of the 30-day request that is an API error (of
\* the APIError family) leads to the 7-day request; a failure of any other
\* class goes to the caller after the second request.
C24_Tier2Failure ==
    /\ Len(failures) >= 2 =>
          IF failures[2].type = "APIError"
          THEN Len(requests) = 3
          ELSE /\ Len(requests) = 2
               /\ pc = "done"
               /\ result.tag = "raise"
               /\ ~IsAPIError(result)
    /\ LadderShape

C24_Witness ==
    /\ op = "ts"
    /\ pc = "done"
    /\ tier = 3
    /\ Len(failures) = 3
    /\ result.kind = "unexpected-status"
    /\ requests[2] = [from |-> -30, to |-> 0]
    /\ requests[3] = [from |-> -7, to |-> 0]

\* C25: once the GET of a time-series request has succeeded, the request
\* ends either with the one decoded series or with the malformed-response
\* failure (InvalidResponseError), and with no other kind of error: a body
\* that is not JSON, a missing key on the result.data.json path, a list whose
\* first element is not an object and a bare number all end as
\* malformed-response.
C25_TimeSeriesDecode ==
    (op = "ts" /\ pc = "done" /\ decoded # Nothing) =>
        /\ \/ result = Return("time_series")
           \/ /\ result.tag = "raise"
              /\ result.type = "InvalidResponseError"
              /\ result.kind = "malformed-response"
        /\ decoded.tag = "raise" => result.tag = "raise"
        /\ response.json \in { "invalid", "list_result_nojson", "list_scalar", "number" }
              => result.tag = "raise"
        /\ response.json = "list_result" => result = Return("time_series")

C25_Witness ==
    /\ op = "ts"
    /\ pc = "done"
    /\ response.json = "number"
    /\ decoded.msg = << "TypeError" >>
    /\ result.type = "InvalidResponseError"
    /\ result.kind = "malformed-response"

\* C28: when authenticate() raises in the gate of an attempt, that attempt
\* acquires no client and sends no GET, no delay follows, and the logical GET
\* ends with that exception, of whatever class, unchanged.
C28_GateFailureEndsRequest ==
    ( /\ pc \in { "unwind", "done" }
      /\ op \in { "get", "ts" }
      /\ events # << >>
      /\ events[Len(events)] = "authenticate" ) =>
        /\ Outcome.tag = "raise"
        /\ Outcome.kind = "gate-failure"
        /\ Outcome.msg = << "authentication", "error" >>
        /\ gets = retry_count
        /\ Len(delays) = retry_count
        /\ pc = "unwind" => held = retry_count

C28_Witness ==
    /\ pc = "unwind"
    /\ op = "get"
    /\ retry_count = 2
    /\ gets = 2
    /\ held = 2
    /\ pending.kind = "gate-failure"
    /\ pending.type = "Exception"

\* C26: the gate of a second logical GET that starts while the first one is
\* suspended starts a renewal call of its own exactly when the credential is
\* inside the lead window or expired, wherever the first one is, even in a
\* renewal call for the same expiry: the client coordinates nothing.
C26_NoCoordination ==
    [][ (pc2 = "idle" /\ pc2' # "idle")
            => ((pc2' \in { "gate_refresh", "gate_auth" })
                    = (expiry \in { "lead", "expired" })) ]_vars

C26_Witness ==
    /\ op = "get"
    /\ pc \in { "gate_refresh", "gate_auth" }
    /\ pc2 \in { "gate_refresh", "gate_auth" }
    /\ expiry \in { "lead", "expired" }

\* C27: whatever the responses, the collaborator's outcomes and the auth-mode
\* changes during it, a logical GET sends at most 5 physical GETs, its attempt
\* counter stays at most 4, and once started it ends with a value or an
\* exception.
C27_BoundedAndTerminates ==
    /\ [](op = "get" => (gets <= 5 /\ retry_count <= 4))
    /\ (op = "get" /\ pc = "entry")
          ~> (op = "get" /\ pc = "done" /\ result.tag \in { "return", "raise" })

C27_Witness ==
    /\ op = "get"
    /\ pc = "done"
    /\ gets = 5
    /\ retry_count = 4
    /\ Cardinality(modes) = 2
    /\ result.tag = "raise"

====
